---- MODULE Spec2Model ----
(***************************************************************************)
(* Nodal analysis of an ESP-lifted well (NodalAnalysis.py): trajectory     *)
(* segmentation, Swamee-Jain friction, pump-curve interpolation, VLP, IPR  *)
(* and the grid-search operating-point solver with its report.             *)
(*                                                                         *)
(* The script computes with IEEE doubles; the model computes the same      *)
(* expressions in fixed point:                                             *)
(*   MD, TVD, L          metres                                            *)
(*   ID, D               millimetres                                       *)
(*   flow                1/100 m3/hr                                       *)
(*   velocity u          mm/s                                              *)
(*   depth               decimetres                                        *)
(*   pump head           centimetres                                       *)
(*   pressures           millibar (1 mbar = 100 Pa)                        *)
(*   sin / cos           1/10000                                           *)
(*   log10               1/1000                                            *)
(*   friction factor     1/100000                                          *)
(* Divisions round down where the double would round to nearest.           *)
(***************************************************************************)
EXTENDS Integers, Sequences, FiniteSets, TLC

\* ------------------------------------------------------------------ bounds
MaxWaypoints == 3
NSamples == 3

\* ------------------------------------------------- hardcoded parameters
rho == 1000
mu == 1000
g == 981
roughness == 10000
wellhead_pressure == 10
Tolerance == 3

\* Python's None and a present value, for sol_flow / sol_pbh / sol_head
None == <<>>
Some(v) == <<v>>

\* no exception raised
NoError == "NoError"

\* ------------------------------------------------------------ arithmetic
Abs(x) == IF x < 0 THEN -x ELSE x

Max(a, b) == IF a >= b THEN a ELSE b

RECURSIVE SqrtSearch(_, _, _)
SqrtSearch(n, lo, hi) ==
    IF lo >= hi THEN lo
    ELSE LET mid == (lo + hi + 1) \div 2
         IN IF mid * mid <= n THEN SqrtSearch(n, mid, hi)
                              ELSE SqrtSearch(n, lo, mid - 1)

\* floor of the square root of n, 0 <= n < 2^31
ISqrt(n) == SqrtSearch(n, 0, 46340)

\* math.atan2(y, x): the angle is carried as its sine and cosine
Atan2(y, x) ==
    IF x = 0 /\ y = 0 THEN [sin |-> 0, cos |-> 10000]
    ELSE LET h == ISqrt((x * x + y * y) * 100)
         IN [sin |-> (y * 100000) \div h, cos |-> (x * 100000) \div h]

\* math.sin(theta)
Sin(theta) == theta.sin

\* log10 of the digits 1..10, in 1/1000
LogTable == <<0, 301, 477, 602, 699, 778, 845, 903, 954, 1000>>

RECURSIVE Pow10(_)
Pow10(e) == IF e <= 0 THEN 1 ELSE 10 * Pow10(e - 1)

RECURSIVE Digits(_)
Digits(n) == IF n < 10 THEN 1 ELSE 1 + Digits(n \div 10)

\* math.log10(n) for an integer n >= 1, in 1/1000: exact at d * 10^e,
\* linear between consecutive leading digits
Log10(n) ==
    LET e == Digits(n) - 1
        p == Pow10(e)
        d == n \div p
        r == n - d * p
    IN 1000 * e + LogTable[d]
       + IF e <= 3 THEN ((LogTable[d + 1] - LogTable[d]) * r) \div p
          ELSE ((LogTable[d + 1] - LogTable[d]) * (r \div Pow10(e - 3))) \div 1000

\* 10 ** (m / 1000) for m >= 0, rounded down: the inverse of Log10
Exp10(m) ==
    LET e == m \div 1000
        r == m % 1000
        d == CHOOSE k \in 1..9 : LogTable[k] <= r /\ r < LogTable[k + 1]
        mant == 1000 * d + (1000 * (r - LogTable[d])) \div (LogTable[d + 1] - LogTable[d])
    IN IF e >= 3 THEN mant * Pow10(e - 3) ELSE mant \div Pow10(3 - e)

VARIABLES
    well_trajectory,     \* sequence of waypoints [MD, TVD, ID]
    esp_depth,           \* ESP intake depth, metres
    PI,                  \* productivity index, m3/hr per bar
    reservoir_pressure,  \* bar
    pump_curve,          \* [flow |-> <<...>>, head |-> <<...>>], m3/hr and m
    flow_range,          \* <<start, stop, num>> handed to linspace, m3/hr
    segments,            \* sequence of <<L, D, theta>>
    i,                   \* loop index of the segment loop
    flows,               \* the sample grid
    p_vlp,               \* vlp(f) for the samples evaluated so far
    p_ipr,               \* ipr(f) for the samples evaluated so far
    vlp_log,             \* per sample: what vlp accumulated (history)
    diff,                \* |p_vlp - p_ipr| per sample
    idx,                 \* argmin of diff (1-based)
    sol_flow, sol_pbh, sol_head,
    plotted,             \* whether the operating-point marker was drawn
    printed,             \* which report was printed
    err,                 \* the exception that ended the script, or NoError
    pc

vars == <<well_trajectory, esp_depth, PI, reservoir_pressure, pump_curve,
          flow_range, segments, i, flows, p_vlp, p_ipr, vlp_log, diff, idx,
          sol_flow, sol_pbh, sol_head, plotted, printed, err, pc>>

config == <<well_trajectory, esp_depth, PI, reservoir_pressure, pump_curve,
            flow_range>>

\* ---------------------------------------------------------- friction
\* def swamee_jain(Re, D)
swamee_jain(Re, D) ==
    IF Re <= 0 THEN 0
    ELSE LET rel  == (roughness * 10000) \div (37 * D)
             smth == Exp10(9000 + Log10(574) - 2000 - (9 * Log10(Re)) \div 10)
             lg   == Log10(rel + smth) - 9000
         IN 25000000 \div ((lg * lg) \div 1000)

\* ---------------------------------------------------------- pump head
\* interpolation that continues the last piece beyond the table
InterpExtrapolating(x, xp, fp) ==
    LET n == Len(xp)
        j == IF x >= 100 * xp[n] THEN n - 1
             ELSE IF x <= 100 * xp[1] THEN 1
             ELSE CHOOSE k \in 1..(n - 1) : 100 * xp[k] <= x /\ x < 100 * xp[k + 1]
    IN 100 * fp[j]
       + ((fp[j + 1] - fp[j]) * (x - 100 * xp[j])) \div (xp[j + 1] - xp[j])

\* np.interp(x, xp, fp): x in 1/100 of xp's unit, result in 1/100 of fp's
Interp(x, xp, fp) ==
    LET n == Len(xp)
    IN IF x <= 100 * xp[1] THEN 100 * fp[1]
       ELSE IF x >= 100 * xp[n] THEN 100 * fp[n]
       ELSE LET j == CHOOSE k \in 1..(n - 1) :
                         100 * xp[k] <= x /\ x < 100 * xp[k + 1]
            IN 100 * fp[j]
               + ((fp[j + 1] - fp[j]) * (x - 100 * xp[j])) \div (xp[j + 1] - xp[j])

\* def pump_interp(flow, key)
pump_interp(flow, key) == Interp(flow, pump_curve["flow"], pump_curve[key])

\* ---------------------------------------------------------- VLP
\* the accumulators with depth_accum kept from the previous call
VlpStartCarried ==
    [dp_total |-> 0,
     depth_accum |-> IF vlp_log = <<>> THEN 0
                     ELSE vlp_log[Len(vlp_log)].depth_accum,
     fric |-> <<>>, grav |-> <<>>, boosts |-> 0, raised |-> NoError]

\* "dp_total = 0.0; depth_accum = 0.0"
VlpStart == [dp_total |-> 0, depth_accum |-> 0, fric |-> <<>>, grav |-> <<>>,
             boosts |-> 0, raised |-> NoError]

\* lines 57-63 and the L * sin(theta) of line 65, for one segment
SegmentTerms(seg, flow_m3hr) ==
    LET L     == seg[1]
        D     == seg[2]
        theta == seg[3]
        q     == (flow_m3hr * 25000) \div 9
        A     == (355 * D * D) \div 452
    IN IF A = 0
       THEN [raised |-> "ZeroDivisionError", dp_fric |-> 0, dp_grav |-> 0, rise |-> 0]
       ELSE LET u       == q \div A
                Re      == (rho * Abs(u) * D) \div mu
                f       == swamee_jain(Re, D)
                dyn     == (rho * ((u * u) \div 1000)) \div 2000
                rise    == (L * Sin(theta)) \div 1000
            IN [raised  |-> NoError,
                dp_fric |-> (((f * dyn) \div 1000) * ((L * 1000) \div D)) \div 10000,
                dp_grav |-> (((rho * g) \div 1000) * rise) \div 100,
                rise    |-> rise]

\* rho * g * pump_interp(flow, "head")
PumpBoost(flow_m3hr) ==
    (((rho * g) \div 1000) * pump_interp(flow_m3hr, "head")) \div 1000

\* the loop body with the intake test made in every iteration
VlpSegmentBoostPerSegment(acc, seg, flow_m3hr) ==
    LET t == SegmentTerms(seg, flow_m3hr)
        reached == acc.depth_accum + t.rise >= 10 * esp_depth
    IN IF t.raised # NoError THEN [acc EXCEPT !.raised = t.raised]
       ELSE [acc EXCEPT !.dp_total = @ + t.dp_fric + t.dp_grav
                                       - (IF reached THEN PumpBoost(flow_m3hr) ELSE 0),
                        !.depth_accum = @ + t.rise,
                        !.fric = Append(@, t.dp_fric),
                        !.grav = Append(@, t.dp_grav),
                        !.boosts = @ + (IF reached THEN 1 ELSE 0)]

\* body of "for (L, D, theta) in segments" for one segment
VlpSegment(acc, seg, flow_m3hr) ==
    LET t == SegmentTerms(seg, flow_m3hr)
    IN IF t.raised # NoError THEN [acc EXCEPT !.raised = t.raised]
       ELSE [acc EXCEPT !.dp_total = @ + t.dp_fric + t.dp_grav,
                        !.depth_accum = @ + t.rise,
                        !.fric = Append(@, t.dp_fric),
                        !.grav = Append(@, t.dp_grav)]

RECURSIVE VlpLoop(_, _, _)
VlpLoop(acc, segs, flow_m3hr) ==
    IF segs = <<>> \/ acc.raised # NoError THEN acc
    ELSE VlpLoop(VlpSegment(acc, Head(segs), flow_m3hr), Tail(segs), flow_m3hr)

\* the final test, skipping the boost for a static column
VlpBoostFlowingOnly(acc, flow_m3hr) ==
    IF acc.raised # NoError THEN acc
    ELSE IF acc.depth_accum >= 10 * esp_depth /\ flow_m3hr # 0
    THEN [acc EXCEPT !.dp_total = @ - PumpBoost(flow_m3hr), !.boosts = @ + 1]
    ELSE acc

\* "if depth_accum >= esp_depth: dp_total -= rho * g * pump_interp(...)"
VlpBoost(acc, flow_m3hr) ==
    IF acc.raised # NoError THEN acc
    ELSE IF acc.depth_accum >= 10 * esp_depth
    THEN [acc EXCEPT !.dp_total = @ - PumpBoost(flow_m3hr), !.boosts = @ + 1]
    ELSE acc

\* what one call vlp(flow_m3hr) accumulates
VlpWalk(flow_m3hr) == VlpBoost(VlpLoop(VlpStart, segments, flow_m3hr), flow_m3hr)

\* def vlp(flow_m3hr): the returned pressure
vlp(flow_m3hr) == 1000 * wellhead_pressure + VlpWalk(flow_m3hr).dp_total

\* ---------------------------------------------------------- IPR
\* ipr without the floor at zero
IprUnfloored(flow_m3hr) ==
    1000 * reservoir_pressure - (10 * flow_m3hr) \div PI

\* def ipr(flow_m3hr); PI # 0
ipr(flow_m3hr) ==
    LET pbh == 1000 * reservoir_pressure - (10 * flow_m3hr) \div PI
    IN Max(pbh, 0)

\* ---------------------------------------------------------- inputs
Waypoints ==
    { [MD |-> 0,   TVD |-> 0,   ID |-> 200],
      [MD |-> 400, TVD |-> 0,   ID |-> 200],
      [MD |-> 400, TVD |-> 300, ID |-> 150],
      [MD |-> 800, TVD |-> 600, ID |-> 150],
      [MD |-> 800, TVD |-> 600, ID |-> 0] }

Trajectories == UNION { [1..n -> Waypoints] : n \in 0..MaxWaypoints }

\* pump_curve of the script
PumpCurve == [flow |-> <<0, 100, 200, 300, 400>>,
              head |-> <<600, 550, 450, 300, 100>>]

EspDepths == {240, 480}
PIs == {-5, 0, 5}
ReservoirPressures == {12, 13, 75}
FlowRanges == {<<0, 400, NSamples>>, <<100, 400, NSamples>>,
               <<200, 200, NSamples>>}

\* np.linspace(start, stop, num), num >= 1
Linspace(start, stop, num) ==
    [k \in 1..num |->
        IF num > 1 /\ k = num THEN 100 * stop
        ELSE IF num = 1 THEN 100 * start
        ELSE 100 * start + ((k - 1) * 100 * (stop - start)) \div (num - 1)]

\* ---------------------------------------------------------- the script
Init ==
    /\ well_trajectory \in Trajectories
    /\ esp_depth \in EspDepths
    /\ PI \in PIs
    /\ reservoir_pressure \in ReservoirPressures
    /\ pump_curve = PumpCurve
    /\ flow_range \in FlowRanges
    /\ segments = <<>>
    /\ i = 1
    /\ flows = <<>>
    /\ p_vlp = <<>>
    /\ p_ipr = <<>>
    /\ vlp_log = <<>>
    /\ diff = <<>>
    /\ idx = 0
    /\ sol_flow = None
    /\ sol_pbh = None
    /\ sol_head = None
    /\ plotted = FALSE
    /\ printed = "nothing"
    /\ err = NoError
    /\ pc = "segments"

\* a segment whose length is the waypoint's MD instead of the MD difference
MakeSegmentAbsoluteMD(prev, cur) ==
    LET MD  == cur.MD
        TVD == cur.TVD - prev.TVD
        D   == cur.ID
    IN <<MD, D, Atan2(TVD, MD)>>

\* one segment from waypoints i-1 and i (0-based in the script)
MakeSegment(prev, cur) ==
    LET MD  == cur.MD - prev.MD
        TVD == cur.TVD - prev.TVD
        D   == cur.ID
        L   == MD
        theta == Atan2(TVD, MD)
    IN <<L, D, theta>>

\* "for i in range(1, len(well_trajectory))": one iteration, or the exit
SegmentLoop ==
    /\ pc = "segments"
    /\ IF i < Len(well_trajectory)
       THEN /\ segments' = Append(segments,
                                  MakeSegment(well_trajectory[i], well_trajectory[i + 1]))
            /\ i' = i + 1
            /\ UNCHANGED <<flows, pc>>
       ELSE /\ flows' = Linspace(flow_range[1], flow_range[2], flow_range[3])
            /\ pc' = "vlp"
            /\ UNCHANGED <<segments, i>>
    /\ UNCHANGED <<config, p_vlp, p_ipr, vlp_log, diff, idx, sol_flow, sol_pbh,
                   sol_head, plotted, printed, err>>

\* "p_vlp = np.array([vlp(f) for f in flows])": the next element
EvalVlp ==
    /\ pc = "vlp"
    /\ LET f == flows[Len(p_vlp) + 1]
           w == VlpWalk(f)
       IN IF w.raised # NoError
          THEN /\ err' = w.raised
               /\ pc' = "error"
               /\ UNCHANGED <<p_vlp, vlp_log>>
          ELSE /\ p_vlp' = Append(p_vlp, vlp(f))
               /\ vlp_log' = Append(vlp_log, w)
               /\ pc' = IF Len(p_vlp) + 1 = Len(flows) THEN "ipr" ELSE "vlp"
               /\ err' = err
    /\ UNCHANGED <<config, segments, i, flows, p_ipr, diff, idx, sol_flow,
                   sol_pbh, sol_head, plotted, printed>>

\* "p_ipr = np.array([ipr(f) for f in flows])": the next element
EvalIpr ==
    /\ pc = "ipr"
    /\ LET f == flows[Len(p_ipr) + 1]
       IN IF PI = 0
          THEN /\ err' = "ZeroDivisionError"
               /\ pc' = "error"
               /\ p_ipr' = p_ipr
          ELSE /\ p_ipr' = Append(p_ipr, ipr(f))
               /\ pc' = IF Len(p_ipr) + 1 = Len(flows) THEN "solve" ELSE "ipr"
               /\ err' = err
    /\ UNCHANGED <<config, segments, i, flows, p_vlp, vlp_log, diff, idx,
                   sol_flow, sol_pbh, sol_head, plotted, printed>>

\* the difference without np.abs
SignedDiff(a, b) == [k \in 1..Len(a) |-> a[k] - b[k]]

\* np.abs(p_vlp - p_ipr)
AbsDiff(a, b) == [k \in 1..Len(a) |-> Abs(a[k] - b[k])]

\* first index of the smallest element of d[lo..hi]; the halves are merged
\* keeping the left one on a tie (recursion depth log2 of the length)
RECURSIVE ArgminIn(_, _, _)
ArgminIn(d, lo, hi) ==
    IF lo >= hi THEN lo
    ELSE LET mid   == (lo + hi) \div 2
             left  == ArgminIn(d, lo, mid)
             right == ArgminIn(d, mid + 1, hi)
         IN IF d[right] < d[left] THEN right ELSE left

\* the scan with "<=": the last index holding the minimum
ArgminLast(d) ==
    LET RECURSIVE Scan(_, _)
        Scan(k, best) == IF k > Len(d) THEN best
                         ELSE Scan(k + 1, IF d[k] <= d[best] THEN k ELSE best)
    IN Scan(2, 1)

\* np.argmin(d): the first index of the smallest element
Argmin(d) == ArgminIn(d, 1, Len(d))

\* the gate with "<="
AcceptsInclusive(d, k) == d[k] <= 1000 * Tolerance

\* "if diff[idx] < 3"
Accepts(d, k) == d[k] < 1000 * Tolerance

\* the operating point reporting the IPR pressure
OperatingPointIpr(k) ==
    [flow |-> flows[k], pbh |-> p_ipr[k], head |-> pump_interp(flows[k], "head")]

\* sol_flow, sol_pbh, sol_head of an accepted sample k
OperatingPoint(k) ==
    [flow |-> flows[k], pbh |-> p_vlp[k], head |-> pump_interp(flows[k], "head")]

\* diff, idx and the tolerance gate
Solve ==
    /\ pc = "solve"
    /\ diff' = AbsDiff(p_vlp, p_ipr)
    /\ idx' = Argmin(diff')
    /\ IF Accepts(diff', idx')
       THEN /\ sol_flow' = Some(OperatingPoint(idx').flow)
            /\ sol_pbh' = Some(OperatingPoint(idx').pbh)
            /\ sol_head' = Some(OperatingPoint(idx').head)
       ELSE /\ sol_flow' = None
            /\ sol_pbh' = None
            /\ sol_head' = None
    /\ pc' = "plot"
    /\ UNCHANGED <<config, segments, i, flows, p_vlp, p_ipr, vlp_log, plotted,
                   printed, err>>

\* truth value of "if sol_flow:"
Truthy(v) == v # None /\ v[1] # 0

\* the plot: the marker is drawn "if sol_flow"
Plot ==
    /\ pc = "plot"
    /\ plotted' = Truthy(sol_flow)
    /\ pc' = "print"
    /\ UNCHANGED <<config, segments, i, flows, p_vlp, p_ipr, vlp_log, diff, idx,
                   sol_flow, sol_pbh, sol_head, printed, err>>

\* the report: "Solution found:" or "No solution found ..."
PrintSolution ==
    /\ pc = "print"
    /\ printed' = IF Truthy(sol_flow) THEN "Solution found" ELSE "No solution found"
    /\ pc' = "done"
    /\ UNCHANGED <<config, segments, i, flows, p_vlp, p_ipr, vlp_log, diff, idx,
                   sol_flow, sol_pbh, sol_head, plotted, err>>

\* ------------------------------------------- ipr alone, on drawn inputs
IprFlows == {0, 50, 100, 117, 2500, 6000, 40000}

InitIpr ==
    /\ well_trajectory = <<>>
    /\ esp_depth = 500
    /\ PI \in {0, 1, 2, 3, 5}
    /\ reservoir_pressure \in {0, 12, 75, 230}
    /\ pump_curve = PumpCurve
    /\ flow_range = <<0, 400, NSamples>>
    /\ segments = <<>>
    /\ i = 1
    /\ flows \in [1..2 -> IprFlows]
    /\ p_vlp = <<>>
    /\ p_ipr = <<>>
    /\ vlp_log = <<>>
    /\ diff = <<>>
    /\ idx = 0
    /\ sol_flow = None
    /\ sol_pbh = None
    /\ sol_head = None
    /\ plotted = FALSE
    /\ printed = "nothing"
    /\ err = NoError
    /\ pc = "ipr"

SpecIpr == InitIpr /\ [][EvalIpr]_vars

\* --------------------------------- pump_interp alone, on drawn inputs
PumpCurves ==
    { PumpCurve,
      [flow |-> <<100, 200, 400>>, head |-> <<500, 450, 100>>],
      [flow |-> <<50, 150, 250, 350>>, head |-> <<300, 320, 280, 90>>] }

PumpFlows == {2500 * k : k \in -4..20}

InitPump ==
    /\ well_trajectory = <<>>
    /\ esp_depth = 500
    /\ PI = 5
    /\ reservoir_pressure = 230
    /\ pump_curve \in PumpCurves
    /\ flow_range = <<0, 400, NSamples>>
    /\ segments = <<>>
    /\ i = 1
    /\ flows = <<>>
    /\ p_vlp = <<>>
    /\ p_ipr = <<>>
    /\ vlp_log = <<>>
    /\ diff = <<>>
    /\ idx = 0
    /\ sol_flow \in {Some(x) : x \in PumpFlows}
    /\ sol_pbh = None
    /\ sol_head = None
    /\ plotted = FALSE
    /\ printed = "nothing"
    /\ err = NoError
    /\ pc = "pump"

\* "sol_head = pump_interp(sol_flow, "head")"
EvalPump ==
    /\ pc = "pump"
    /\ sol_head' = Some(pump_interp(sol_flow[1], "head"))
    /\ pc' = "done"
    /\ UNCHANGED <<config, segments, i, flows, p_vlp, p_ipr, vlp_log, diff, idx,
                   sol_flow, sol_pbh, plotted, printed, err>>

SpecPump == InitPump /\ [][EvalPump]_vars

\* --------------------------- the script as written, lines 7-28 and 80
ExampleTrajectory ==
    << [MD |-> 0,    TVD |-> 0,    ID |-> 340],
       [MD |-> 500,  TVD |-> 500,  ID |-> 245],
       [MD |-> 1500, TVD |-> 1500, ID |-> 178],
       [MD |-> 2500, TVD |-> 2500, ID |-> 178] >>

ExampleFlowRange == <<1, 400, 200>>

InitExample ==
    /\ well_trajectory = ExampleTrajectory
    /\ esp_depth = 500
    /\ PI = 5
    /\ reservoir_pressure = 230
    /\ pump_curve = PumpCurve
    /\ flow_range = ExampleFlowRange
    /\ segments = <<>>
    /\ i = 1
    /\ flows = <<>>
    /\ p_vlp = <<>>
    /\ p_ipr = <<>>
    /\ vlp_log = <<>>
    /\ diff = <<>>
    /\ idx = 0
    /\ sol_flow = None
    /\ sol_pbh = None
    /\ sol_head = None
    /\ plotted = FALSE
    /\ printed = "nothing"
    /\ err = NoError
    /\ pc = "segments"

\* --------------------------------------------------- the whole script
Next == SegmentLoop \/ EvalVlp \/ EvalIpr \/ Solve \/ Plot \/ PrintSolution

Spec == Init /\ [][Next]_vars

SpecExample == InitExample /\ [][Next]_vars

\* ================================================================ claims
\* a trajectory the segmenter's contract admits
ValidTrajectory(t) ==
    /\ Len(t) >= 2
    /\ \A k \in 1..(Len(t) - 1) : t[k].MD < t[k + 1].MD
    /\ \A k \in 1..Len(t) : t[k].ID > 0

Solved == pc \in {"plot", "print", "done"}

\* |vlp(f) - ipr(f)| at sample k, from the two evaluated curves
Gap(k) == Abs(p_vlp[k] - p_ipr[k])

MinGap == CHOOSE m \in {Gap(k) : k \in 1..Len(flows)} :
              \A k \in 1..Len(flows) : m <= Gap(k)

\* C1: once the solver has run, a solution is reported exactly when the
\* smallest |vlp - ipr| over the grid is strictly below the tolerance; when
\* it is equal to or above the tolerance, flow, pressure and head are all
\* absent (no forced nearest match).
C1_ToleranceGate ==
    Solved =>
        /\ (sol_flow # None) <=> (MinGap < 1000 * Tolerance)
        /\ MinGap >= 1000 * Tolerance =>
               sol_flow = None /\ sol_pbh = None /\ sol_head = None
        /\ MinGap < 1000 * Tolerance =>
               sol_flow # None /\ sol_pbh # None /\ sol_head # None

\* on a valid well with PI > 0 the smallest gap equals the tolerance
\* exactly and the solver rejected
C1_Witness ==
    /\ pc = "done"
    /\ ValidTrajectory(well_trajectory)
    /\ PI > 0
    /\ MinGap = 1000 * Tolerance
    /\ sol_flow = None

\* C2: the selected sample's gap is no larger than any other sample's, and
\* among the samples sharing the smallest gap it is the first in grid
\* (ascending-flow) order.
C2_ArgminFirst ==
    Solved =>
        /\ idx \in 1..Len(flows)
        /\ \A k \in 1..Len(flows) : Gap(idx) <= Gap(k)
        /\ \A k \in 1..Len(flows) :
               Gap(k) = Gap(idx) => idx <= k /\ flows[idx] <= flows[k]

\* a sample of a different flow shares the smallest gap
C2_Witness ==
    /\ Solved
    /\ \E k \in 1..Len(flows) : flows[k] # flows[idx] /\ Gap(k) = Gap(idx)

RECURSIVE SumSeq(_)
SumSeq(q) == IF q = <<>> THEN 0 ELSE Head(q) + SumSeq(Tail(q))

\* L * sin(theta) of a segment, decimetres
Rise(seg) == (seg[1] * Sin(seg[3])) \div 1000

\* the vertical depth accumulated over all segments
TotalDepth == SumSeq([k \in 1..Len(segments) |-> Rise(segments[k])])

\* C3: every vlp evaluation subtracts the pump boost exactly once when the
\* depth accumulated over all segments is at or beyond the intake depth and
\* not at all when it is short of it, whichever segment crosses the intake;
\* the returned pressure is wellhead + friction + gravity - that one boost.
C3_SingleBoost ==
    \A k \in 1..Len(vlp_log) :
        LET w == vlp_log[k]
        IN /\ w.depth_accum = TotalDepth
           /\ w.boosts = IF TotalDepth >= 10 * esp_depth THEN 1 ELSE 0
           /\ TotalDepth < 10 * esp_depth => w.boosts = 0
           /\ p_vlp[k] = 1000 * wellhead_pressure + SumSeq(w.fric) + SumSeq(w.grav)
                         - w.boosts * PumpBoost(flows[k])

\* a valid two-segment well whose first segment alone already reaches the
\* intake, and a sample was evaluated with one boost
C3_Witness ==
    /\ ValidTrajectory(well_trajectory)
    /\ Len(segments) >= 2
    /\ Rise(segments[1]) >= 10 * esp_depth
    /\ Len(vlp_log) >= 1
    /\ vlp_log[1].boosts = 1

\* C4: an accepted operating point is the selected grid sample: its flow is
\* that sample's flow (inside the sampled range), its pressure is the VLP
\* value there, and its head is the pump head at that flow.
C4_OperatingPoint ==
    (Solved /\ sol_flow # None) =>
        /\ sol_flow = Some(flows[idx])
        /\ \E k \in 1..Len(flows) : sol_flow[1] = flows[k]
        /\ 100 * flow_range[1] <= sol_flow[1] /\ sol_flow[1] <= 100 * flow_range[2]
        /\ sol_pbh = Some(p_vlp[idx])
        /\ sol_pbh = Some(vlp(flows[idx]))
        /\ sol_head = Some(Interp(sol_flow[1], pump_curve["flow"], pump_curve["head"]))

\* an accepted flowing sample of a valid two-segment well whose VLP and IPR
\* values differ
C4_Witness ==
    /\ pc = "done"
    /\ sol_flow # None
    /\ sol_flow[1] > 0
    /\ PI > 0
    /\ ValidTrajectory(well_trajectory)
    /\ Len(segments) >= 2
    /\ p_vlp[idx] # p_ipr[idx]

\* rho * g * L * sin(theta) of a segment, mbar
GravTerm(seg) == (((rho * g) \div 1000) * Rise(seg)) \div 100

\* C5: at flow 0 the friction factor and every segment's frictional term
\* are zero, every gravity term is added, and the boost at the zero-flow
\* head is subtracted when the accumulated depth reaches the intake.
C5_ZeroFlow ==
    /\ \A Re \in -2..0, D \in {150, 200} : swamee_jain(Re, D) = 0
    /\ \A k \in 1..Len(vlp_log) :
           flows[k] = 0 =>
               /\ vlp_log[k].fric = [n \in 1..Len(segments) |-> 0]
               /\ vlp_log[k].grav = [n \in 1..Len(segments) |-> GravTerm(segments[n])]
               /\ p_vlp[k] = 1000 * wellhead_pressure
                             + SumSeq([n \in 1..Len(segments) |-> GravTerm(segments[n])])
                             - (IF TotalDepth >= 10 * esp_depth
                                THEN (((rho * g) \div 1000) * 100 * pump_curve["head"][1]) \div 1000
                                ELSE 0)

\* the zero-flow sample of a well with gravity and a reached intake, next to
\* a flowing sample that does lose pressure to friction
C5_Witness ==
    /\ ValidTrajectory(well_trajectory)
    /\ Len(vlp_log) >= 2
    /\ flows[1] = 0
    /\ SumSeq(vlp_log[1].grav) > 0
    /\ vlp_log[1].boosts = 1
    /\ SumSeq(vlp_log[2].fric) > 0

\* C6: for PI > 0 and flows >= 0, ipr is never negative, ipr(0) is the
\* reservoir pressure, and of two flows whose unfloored values are both
\* positive the larger flow has the strictly smaller ipr.
C6_IprLaws ==
    PI > 0 =>
        \A k \in 1..Len(p_ipr) :
            /\ p_ipr[k] >= 0
            /\ flows[k] = 0 => p_ipr[k] = 1000 * reservoir_pressure
            /\ \A m \in 1..Len(p_ipr) :
                   ( /\ flows[k] < flows[m]
                     /\ 100 * reservoir_pressure * PI > flows[k]
                     /\ 100 * reservoir_pressure * PI > flows[m] )
                   => p_ipr[k] > p_ipr[m]

\* ipr evaluated at 0 and at a larger flow that the reservoir still
\* sustains at positive pressure
C6_Witness ==
    /\ PI > 0
    /\ Len(p_ipr) = 2
    /\ flows[1] = 0
    /\ flows[2] > 0
    /\ 100 * reservoir_pressure * PI > flows[2]

\* C7: the pump head is the first tabulated head below the table, the last
\* tabulated head above it (flat, not extrapolated), the tabulated head at
\* every tabulated flow, and on the chord between the two neighbouring
\* samples in between.
C7_PumpHeadClamp ==
    (sol_flow # None /\ sol_head # None) =>
        LET x  == sol_flow[1]
            h  == sol_head[1]
            xp == pump_curve["flow"]
            fp == pump_curve["head"]
            n  == Len(xp)
        IN /\ x < 100 * xp[1] => h = 100 * fp[1]
           /\ x > 100 * xp[n] => h = 100 * fp[n]
           /\ \A j \in 1..n : x = 100 * xp[j] => h = 100 * fp[j]
           /\ \A j \in 1..(n - 1) :
                  (100 * xp[j] < x /\ x < 100 * xp[j + 1]) =>
                      Abs((h - 100 * fp[j]) * (xp[j + 1] - xp[j])
                          - (fp[j + 1] - fp[j]) * (x - 100 * xp[j]))
                      < xp[j + 1] - xp[j]

\* a head was computed for a flow beyond the last tabulated flow
C7_Witness ==
    /\ sol_flow # None
    /\ sol_head # None
    /\ sol_flow[1] > 100 * pump_curve["flow"][Len(pump_curve["flow"])]

\* at least two waypoints with strictly increasing MD
IncreasingMD(t) ==
    /\ Len(t) >= 2
    /\ \A k \in 1..(Len(t) - 1) : t[k].MD < t[k + 1].MD

\* C8: for a trajectory of at least two waypoints with strictly increasing
\* MD the segmenter yields waypointCount - 1 segments in waypoint order,
\* the k-th from waypoints k and k+1, every length positive, the lengths
\* summing to last MD - first MD.
C8_Segments ==
    IncreasingMD(well_trajectory) =>
        LET t == well_trajectory
        IN /\ Len(segments) = i - 1
           /\ \A k \in 1..Len(segments) :
                  /\ segments[k][1] = t[k + 1].MD - t[k].MD
                  /\ segments[k][1] > 0
                  /\ segments[k][2] = t[k + 1].ID
                  /\ segments[k][3] = Atan2(t[k + 1].TVD - t[k].TVD,
                                            t[k + 1].MD - t[k].MD)
           /\ pc # "segments" =>
                  /\ Len(segments) = Len(t) - 1
                  /\ SumSeq([k \in 1..Len(segments) |-> segments[k][1]])
                     = t[Len(t)].MD - t[1].MD

\* a three-waypoint trajectory fully segmented
C8_Witness ==
    /\ IncreasingMD(well_trajectory)
    /\ Len(well_trajectory) = 3
    /\ pc = "vlp"
    /\ Len(segments) = 2

\* C9: a trajectory with fewer than 2 waypoints, non-increasing MD or an
\* ID <= 0 is rejected with InvalidTrajectory at segmentation, so the script
\* never goes on to evaluate vlp on it.
C9_InvalidTrajectoryRejected ==
    ~ValidTrajectory(well_trajectory) =>
        /\ pc \in {"segments", "error"}
        /\ pc = "error" => err = "InvalidTrajectory"

\* C10: a productivity index <= 0 is rejected with InvalidParameter at
\* configuration, so the script never goes on to evaluate ipr with it.
C10_NonPositivePIRejected ==
    PI <= 0 =>
        /\ pc \notin {"ipr", "solve", "plot", "print", "done"}
        /\ p_ipr = <<>>

\* C11: with the script's own parameters, 200 samples over [1, 400] and a
\* tolerance of 3 bar, the run raises nothing and ends with an accepted
\* operating point whose flow is strictly between 0 and 400 m3/hr and whose
\* |VLP - IPR| is below 3 bar; the point is the one that evaluating the two
\* curves afresh over the same grid selects, so every run yields it.
C11_ExampleOperatingPoint ==
    /\ pc # "error"
    /\ pc = "done" =>
           LET fl == Linspace(1, 400, 200)
               d  == [k \in 1..200 |-> Abs(vlp(fl[k]) - ipr(fl[k]))]
               best == CHOOSE k \in 1..200 :
                           /\ \A m \in 1..200 : d[k] <= d[m]
                           /\ \A m \in 1..(k - 1) : d[m] > d[k]
           IN /\ sol_flow # None
              /\ 0 < sol_flow[1] /\ sol_flow[1] < 100 * 400
              /\ Gap(idx) < 1000 * Tolerance
              /\ Abs(vlp(sol_flow[1]) - ipr(sol_flow[1])) < 1000 * Tolerance
              /\ sol_flow = Some(fl[best])
              /\ sol_pbh = Some(vlp(fl[best]))
              /\ sol_head = Some(pump_interp(fl[best], "head"))

\* the script's own configuration ran to the end over its 200 samples and
\* accepted a point
C11_Witness ==
    /\ pc = "done"
    /\ well_trajectory = ExampleTrajectory
    /\ Len(flows) = 200
    /\ Len(p_vlp) = 200
    /\ sol_flow # None

\* C12: a horizontal segment has inclination 0 and a vertical one pi/2, so
\* that L * sin(theta) is the segment's vertical rise delta TVD (to the
\* model's resolution of 1 dm) and the depth compared with the pump intake
\* is the trajectory's total TVD.
C12_RiseIsDeltaTVD ==
    LET t == well_trajectory
    IN /\ \A k \in 1..Len(segments) :
              LET dMD  == t[k + 1].MD - t[k].MD
                  dTVD == t[k + 1].TVD - t[k].TVD
              IN /\ (dTVD = 0 /\ dMD > 0) => Sin(segments[k][3]) = 0
                 /\ (dTVD = dMD /\ dMD > 0) => Sin(segments[k][3]) = 10000
                 /\ Abs(Rise(segments[k]) - 10 * dTVD) <= 1
       /\ \A k \in 1..Len(vlp_log) :
              Abs(vlp_log[k].depth_accum - 10 * (t[Len(t)].TVD - t[1].TVD))
              <= Len(segments)

\* all orders in which the samples 1..n can be handed to the merge
Orders(n) == {p \in [1..n -> 1..n] : \A a, b \in 1..n : a # b => p[a] # p[b]}

\* the minimum selection merged in the order p: a candidate replaces the
\* best so far when its gap is smaller, or equal at a lower index
RECURSIVE MergeInOrder(_, _, _)
MergeInOrder(p, j, best) ==
    IF j > Len(p) THEN best
    ELSE LET c == p[j]
         IN MergeInOrder(p, j + 1,
                IF Gap(c) < Gap(best) \/ (Gap(c) = Gap(best) /\ c < best)
                THEN c ELSE best)

C14_ReportMatchesGate ==
    (ValidTrajectory(well_trajectory) /\ PI > 0) =>
        /\ pc \in {"print", "done"} => (plotted <=> sol_flow # None)
        /\ pc = "done" =>
               /\ (printed = "Solution found") <=> (sol_flow # None)
               /\ (printed = "No solution found") <=> (sol_flow = None)

====
